---- MODULE Spec2Model ----
(***************************************************************************)
(* Model of internal/pkg/prometheus/prometheus.go: Get scrapes one target  *)
(* over HTTP, decodes the payload into metric families keyed by name, and  *)
(* on success records the payload size in two process-wide metrics         *)
(* (targetSize, a gauge vector labelled by target, and                     *)
(* totalScrapedPayload).  ResetTotalScrapedPayload and ResetTargetSize     *)
(* reset them.                                                             *)
(*                                                                         *)
(* One Get call is a sequence of steps of a process p; pc[p] is the place  *)
(* of the call in the function body.  The HTTP transport, the response     *)
(* body and the expfmt decoder are the environment: what they answer is    *)
(* an input of the step that asks them.                                    *)
(*                                                                         *)
(* Body sizes are small naturals, so float64(len(body)) and the gauge's    *)
(* float64 addition are exact here (they are exact below 2^53).            *)
(***************************************************************************)
EXTENDS Integers, Sequences, FiniteSets, TLC

\* ------------------------------------------------------------------ bounds

\* Number of processes that may call Get.
NProcs == 2
\* Largest response body, in bytes.
MaxBody == 3
\* Get is called only while the cumulative metric is at most MaxTotal.
MaxTotal == 3

Procs == 1..NProcs

\* ------------------------------------------------------------------ inputs

\* Targets http.NewRequest can parse, and one it cannot.
ValidUrls == {"http://t1/metrics", "http://t2/metrics"}
BadUrls == {"http://bad url"}
Urls == ValidUrls \cup BadUrls

AcceptHeaders == {"text/plain", "*/*"}
FetchTimeouts == {"5", "10"}

\* Status codes around both ends of the accepted range.
StatusCodes == {199, 200, 300, 301}

\* Metric family names a payload may carry.
Names == {"A", "B", "C"}

\* What client.Do answers: an error, or a response with a status code.
DoOutcomes ==
  {[fails |-> TRUE, StatusCode |-> 0]}
    \cup {[fails |-> FALSE, StatusCode |-> c] : c \in StatusCodes}

\* What ioutil.ReadAll answers: an error, or a body of len bytes.
ReadOutcomes ==
  {[fails |-> TRUE, len |-> 0]}
    \cup {[fails |-> FALSE, len |-> n] : n \in 0..MaxBody}

\* What one d.Decode answers: the next family, io.EOF, or another error.
DecodeEvents ==
  {[kind |-> "family", name |-> n] : n \in Names}
    \cup {[kind |-> "EOF", name |-> ""], [kind |-> "error", name |-> ""]}

\* The inputs of the parallel specification, cut down to what the shared metrics
\* depend on: the target, the body size, and whether the call fails (in the
\* transport, in the body read or in the decoding) or succeeds.  The payloads
\* carry no family (comments only).
ParUrls == ValidUrls
ParAcceptHeaders == {"text/plain"}
ParFetchTimeouts == {"5"}
ParDoOutcomes == {o \in DoOutcomes : o.fails \/ o.StatusCode = 200}
ParDecodeEvents == {e \in DecodeEvents : e.kind # "family"}

\* ------------------------------------------------------------------ values

XPrometheusScrapeTimeoutHeader == "X-Prometheus-Scrape-Timeout-Seconds"
AcceptHeader == "Accept"

\* error values: nil, or an error of a kind; the status error names the code.
NilErr == [kind |-> "nil", code |-> 0]
Error(kind) == [kind |-> kind, code |-> 0]
StatusError(code) == [kind |-> "HTTPStatusError", code |-> code]

\* A map with no entries, as a function with an empty domain.
EmptyMap == [k \in {} |-> 0]

\* MetricFamiliesByName: a Go map value is nil or a (possibly empty) map.
MetricFamiliesByName(m) == [isNil |-> FALSE, m |-> m]
NilMap == [isNil |-> TRUE, m |-> EmptyMap]

\* m[k] = v
MapPut(m, k, v) ==
  [x \in (DOMAIN m) \cup {k} |-> IF x = k THEN v ELSE m[x]]

\* http.Header.Add: append v to the values of key k.
HeaderAdd(h, k, v) ==
  [x \in (DOMAIN h) \cup {k} |->
     IF x = k
       THEN (IF k \in DOMAIN h THEN Append(h[k], v) ELSE <<v>>)
       ELSE h[x]]

\* http.Header.Get: the first value of key k, "" if none.
HeaderGet(h, k) == IF k \in DOMAIN h /\ Len(h[k]) > 0 THEN h[k][1] ELSE ""

NoReq == [method |-> "", url |-> "", header |-> EmptyMap]
NoResp == [got |-> FALSE, StatusCode |-> 0]
NoBody == [read |-> FALSE, len |-> 0]

\* The early returns hand back nil instead of the empty map.
EarlyFailedResultNil(m) == NilMap

\* return mfs, err  (request construction, transport and body read failures)
EarlyFailedResult(m) == MetricFamiliesByName(m)

\* http.NewRequest("GET", url, nil) fails exactly when url does not parse.
ParseOK(u) == u \in ValidUrls

\* Only the codes below 300 pass.
StatusRejectedAt300(code) == code < 200 \/ code >= 300

\* The status check of Get: TRUE when the response is rejected.
StatusRejected(code) == code < 200 \/ code > 300

\* ------------------------------------------------------------------ state

VARIABLES
  pc,                   \* pc[p]: where process p is in Get ("idle": not in it)
  url,                  \* Get's arguments
  acceptHeader,
  fetchTimeout,
  mfs,                  \* Get's local mfs
  req,                  \* Get's local req
  resp,                 \* Get's local resp
  body,                 \* Get's local body
  decoded,              \* the families the decoder d has produced so far
  result,               \* the values Get returned
  err,
  doer,                 \* the client: how often Do ran in this call, and its request
  targetSize,           \* the gauge vector: target -> value, for the targets set
  totalScrapedPayload,  \* the cumulative metric
  preTarget,            \* the two metrics as they were when the call began
  preTotal,
  scrapedSince,         \* bytes of the successful calls returned since the last
                        \* ResetTotalScrapedPayload
  lastOk                \* target -> size of its last successful call returned
                        \* since the last ResetTargetSize

locals == <<url, acceptHeader, fetchTimeout, mfs, req, resp, body, decoded,
            result, err, doer>>
metrics == <<targetSize, totalScrapedPayload>>
snapshot == <<preTarget, preTotal>>
history == <<scrapedSince, lastOk>>
vars == <<pc, locals, metrics, snapshot, history>>

Init ==
  /\ pc = [p \in Procs |-> "idle"]
  /\ url = [p \in Procs |-> ""]
  /\ acceptHeader = [p \in Procs |-> ""]
  /\ fetchTimeout = [p \in Procs |-> ""]
  /\ mfs = [p \in Procs |-> EmptyMap]
  /\ req = [p \in Procs |-> NoReq]
  /\ resp = [p \in Procs |-> NoResp]
  /\ body = [p \in Procs |-> NoBody]
  /\ decoded = [p \in Procs |-> <<>>]
  /\ result = [p \in Procs |-> NilMap]
  /\ err = [p \in Procs |-> NilErr]
  /\ doer = [p \in Procs |-> [calls |-> 0, req |-> NoReq]]
  /\ targetSize = EmptyMap
  /\ totalScrapedPayload = 0
  /\ preTarget = [p \in Procs |-> EmptyMap]
  /\ preTotal = [p \in Procs |-> 0]
  /\ scrapedSince = 0
  /\ lastOk = EmptyMap


\* ------------------------------------------------------------------ Get

\* Get is called with (client, u, a, t); mfs := MetricFamiliesByName{}.
\* The client is fresh: Do has not run for this call.
GetCall(p, u, a, t) ==
  /\ pc[p] = "idle"
  /\ totalScrapedPayload <= MaxTotal
  /\ pc' = [pc EXCEPT ![p] = "newRequest"]
  /\ url' = [url EXCEPT ![p] = u]
  /\ acceptHeader' = [acceptHeader EXCEPT ![p] = a]
  /\ fetchTimeout' = [fetchTimeout EXCEPT ![p] = t]
  /\ mfs' = [mfs EXCEPT ![p] = EmptyMap]
  /\ doer' = [doer EXCEPT ![p] = [calls |-> 0, req |-> NoReq]]
  /\ preTarget' = [preTarget EXCEPT ![p] = targetSize]
  /\ preTotal' = [preTotal EXCEPT ![p] = totalScrapedPayload]
  /\ UNCHANGED <<req, resp, body, decoded, result, err, metrics, history>>

\* req, err := http.NewRequest("GET", url, nil); if err != nil { return mfs, err }
NewRequest(p) ==
  /\ pc[p] = "newRequest"
  /\ IF ParseOK(url[p])
       THEN /\ req' = [req EXCEPT ![p] =
                         [method |-> "GET", url |-> url[p], header |-> EmptyMap]]
            /\ pc' = [pc EXCEPT ![p] = "addAccept"]
            /\ UNCHANGED <<result, err>>
       ELSE /\ result' = [result EXCEPT ![p] = EarlyFailedResult(mfs[p])]
            /\ err' = [err EXCEPT ![p] = Error("RequestConstructionError")]
            /\ pc' = [pc EXCEPT ![p] = "done"]
            /\ UNCHANGED req
  /\ UNCHANGED <<url, acceptHeader, fetchTimeout, mfs, resp, body, decoded, doer,
                 metrics, snapshot, history>>

\* req.Header.Add(AcceptHeader, acceptHeader)
AddAcceptHeader(p) ==
  /\ pc[p] = "addAccept"
  /\ req' = [req EXCEPT ![p].header = HeaderAdd(@, AcceptHeader, acceptHeader[p])]
  /\ pc' = [pc EXCEPT ![p] = "addTimeout"]
  /\ UNCHANGED <<url, acceptHeader, fetchTimeout, mfs, resp, body, decoded,
                 result, err, doer, metrics, snapshot, history>>

\* The timeout header is left out.
AddTimeoutHeaderSkipped(p) ==
  /\ pc[p] = "addTimeout"
  /\ pc' = [pc EXCEPT ![p] = "do"]
  /\ UNCHANGED <<locals, metrics, snapshot, history>>

\* req.Header.Add(XPrometheusScrapeTimeoutHeader, fetchTimeout)
AddTimeoutHeader(p) ==
  /\ pc[p] = "addTimeout"
  /\ req' = [req EXCEPT ![p].header =
               HeaderAdd(@, XPrometheusScrapeTimeoutHeader, fetchTimeout[p])]
  /\ pc' = [pc EXCEPT ![p] = "do"]
  /\ UNCHANGED <<url, acceptHeader, fetchTimeout, mfs, resp, body, decoded,
                 result, err, doer, metrics, snapshot, history>>

\* A failed Do is tried once more.
ClientDoRetrying(p, o) ==
  /\ pc[p] = "do"
  /\ doer' = [doer EXCEPT ![p] = [calls |-> @.calls + 1, req |-> req[p]]]
  /\ IF o.fails
       THEN IF doer[p].calls = 0
              THEN /\ pc' = pc
                   /\ UNCHANGED <<result, err, resp>>
              ELSE /\ result' = [result EXCEPT ![p] = EarlyFailedResult(mfs[p])]
                   /\ err' = [err EXCEPT ![p] = Error("TransportError")]
                   /\ pc' = [pc EXCEPT ![p] = "done"]
                   /\ UNCHANGED resp
       ELSE /\ resp' = [resp EXCEPT ![p] =
                          [got |-> TRUE, StatusCode |-> o.StatusCode]]
            /\ pc' = [pc EXCEPT ![p] = "checkStatus"]
            /\ UNCHANGED <<result, err>>
  /\ UNCHANGED <<url, acceptHeader, fetchTimeout, mfs, req, body, decoded,
                 metrics, snapshot, history>>

\* resp, err := client.Do(req); if err != nil { return mfs, err }
\* The client answers o, and has seen the request.
ClientDo(p, o) ==
  /\ pc[p] = "do"
  /\ doer' = [doer EXCEPT ![p] = [calls |-> @.calls + 1, req |-> req[p]]]
  /\ IF o.fails
       THEN /\ result' = [result EXCEPT ![p] = EarlyFailedResult(mfs[p])]
            /\ err' = [err EXCEPT ![p] = Error("TransportError")]
            /\ pc' = [pc EXCEPT ![p] = "done"]
            /\ UNCHANGED resp
       ELSE /\ resp' = [resp EXCEPT ![p] =
                          [got |-> TRUE, StatusCode |-> o.StatusCode]]
            /\ pc' = [pc EXCEPT ![p] = "checkStatus"]
            /\ UNCHANGED <<result, err>>
  /\ UNCHANGED <<url, acceptHeader, fetchTimeout, mfs, req, body, decoded,
                 metrics, snapshot, history>>

\* if resp.StatusCode < 200 || resp.StatusCode > 300 { return nil, fmt.Errorf(...) }
CheckStatus(p) ==
  /\ pc[p] = "checkStatus"
  /\ IF StatusRejected(resp[p].StatusCode)
       THEN /\ result' = [result EXCEPT ![p] = NilMap]
            /\ err' = [err EXCEPT ![p] = StatusError(resp[p].StatusCode)]
            /\ pc' = [pc EXCEPT ![p] = "done"]
       ELSE /\ pc' = [pc EXCEPT ![p] = "readAll"]
            /\ UNCHANGED <<result, err>>
  /\ UNCHANGED <<url, acceptHeader, fetchTimeout, mfs, req, resp, body, decoded,
                 doer, metrics, snapshot, history>>

\* The size is added to the cumulative metric as soon as the body is read.
ReadAllRecording(p, o) ==
  /\ pc[p] = "readAll"
  /\ IF o.fails
       THEN /\ result' = [result EXCEPT ![p] = EarlyFailedResult(mfs[p])]
            /\ err' = [err EXCEPT ![p] = Error("BodyReadError")]
            /\ pc' = [pc EXCEPT ![p] = "done"]
            /\ UNCHANGED <<body, decoded, totalScrapedPayload>>
       ELSE /\ body' = [body EXCEPT ![p] = [read |-> TRUE, len |-> o.len]]
            /\ decoded' = [decoded EXCEPT ![p] = <<>>]
            /\ totalScrapedPayload' = totalScrapedPayload + o.len
            /\ pc' = [pc EXCEPT ![p] = "decode"]
            /\ UNCHANGED <<result, err>>
  /\ UNCHANGED <<url, acceptHeader, fetchTimeout, mfs, req, resp, doer,
                 targetSize, snapshot, history>>

\* body, err := ioutil.ReadAll(resp.Body); if err != nil { return mfs, err }
\* r := bytes.NewReader(body); d := expfmt.NewDecoder(r, expfmt.FmtText)
ReadAll(p, o) ==
  /\ pc[p] = "readAll"
  /\ IF o.fails
       THEN /\ result' = [result EXCEPT ![p] = EarlyFailedResult(mfs[p])]
            /\ err' = [err EXCEPT ![p] = Error("BodyReadError")]
            /\ pc' = [pc EXCEPT ![p] = "done"]
            /\ UNCHANGED <<body, decoded>>
       ELSE /\ body' = [body EXCEPT ![p] = [read |-> TRUE, len |-> o.len]]
            /\ decoded' = [decoded EXCEPT ![p] = <<>>]
            /\ pc' = [pc EXCEPT ![p] = "decode"]
            /\ UNCHANGED <<result, err>>
  /\ UNCHANGED <<url, acceptHeader, fetchTimeout, mfs, req, resp, doer,
                 metrics, snapshot, history>>

\* What the decoder can answer next over a body of n bytes of which it has
\* produced the families ds: a family takes at least one byte of the body, and
\* an empty body is a clean end of input.
DecoderCan(e, n, ds) ==
  CASE e.kind = "family" -> Len(ds) < n
    [] e.kind = "error" -> n > 0
    [] OTHER -> TRUE

\* The family d.Decode(&mf) fills in: its name, and as its content the place
\* of the family in the payload (so that no two families of a payload are equal).
DecodedFamily(e, ds) == [name |-> e.name, samples |-> Len(ds) + 1]

\* A name already in the map keeps its first family.
InsertKeepingFirst(m, mf) ==
  IF mf.name \in DOMAIN m THEN m ELSE MapPut(m, mf.name, mf)

\* mfs[mf.GetName()] = mf
Insert(m, mf) == MapPut(m, mf.name, mf)

\* The families decoded so far are returned with the error.
DecodeFailedResultPartial(m) == MetricFamiliesByName(m)

\* return nil, err  (in the decode loop)
DecodeFailedResult(m) == NilMap

\* One turn of the loop:
\*   var mf dto.MetricFamily
\*   if err := d.Decode(&mf); err != nil { if err == io.EOF { break }; return nil, err }
\*   mfs[mf.GetName()] = mf
Decode(p, e) ==
  /\ pc[p] = "decode"
  /\ DecoderCan(e, body[p].len, decoded[p])
  /\ IF e.kind = "family"
       THEN /\ decoded' = [decoded EXCEPT ![p] =
                             Append(@, DecodedFamily(e, decoded[p]))]
            /\ mfs' = [mfs EXCEPT ![p] = Insert(@, DecodedFamily(e, decoded[p]))]
            /\ UNCHANGED <<pc, result, err>>
       ELSE IF e.kind = "EOF"
         THEN /\ pc' = [pc EXCEPT ![p] = "setTargetSize"]
              /\ UNCHANGED <<decoded, mfs, result, err>>
         ELSE /\ result' = [result EXCEPT ![p] = DecodeFailedResult(mfs[p])]
              /\ err' = [err EXCEPT ![p] = Error("DecodeError")]
              /\ pc' = [pc EXCEPT ![p] = "done"]
              /\ UNCHANGED <<decoded, mfs>>
  /\ UNCHANGED <<url, acceptHeader, fetchTimeout, req, resp, body, doer,
                 metrics, snapshot, history>>

\* bodySize := float64(len(body))
BodySize(p) == body[p].len

\* Every series of the vector is set.
LabelSetAll(ts, u, v) == [x \in (DOMAIN ts) \cup {u} |-> v]

\* targetSize.With(prom.Labels{"target": url}).Set(bodySize), on the vector ts
LabelSet(ts, u, v) == MapPut(ts, u, v)

\* targetSize.With(prom.Labels{"target": url}).Set(bodySize)
SetTargetSize(p) ==
  /\ pc[p] = "setTargetSize"
  /\ targetSize' = LabelSet(targetSize, url[p], BodySize(p))
  /\ pc' = [pc EXCEPT ![p] = "addTotal"]
  /\ UNCHANGED <<locals, totalScrapedPayload, snapshot, history>>

\* The metric is set to the size instead of increased by it.
GaugeSetInsteadOfAdd(total, v) == v

\* totalScrapedPayload.Add(bodySize), on the value total
GaugeAdd(total, v) == total + v

\* The metric is read when the call begins and written here.
AddTotalScrapedPayloadStale(p) ==
  /\ pc[p] = "addTotal"
  /\ totalScrapedPayload' = GaugeAdd(preTotal[p], BodySize(p))
  /\ result' = [result EXCEPT ![p] = MetricFamiliesByName(mfs[p])]
  /\ err' = [err EXCEPT ![p] = NilErr]
  /\ pc' = [pc EXCEPT ![p] = "done"]
  /\ UNCHANGED <<url, acceptHeader, fetchTimeout, mfs, req, resp, body, decoded,
                 doer, targetSize, snapshot, history>>

\* totalScrapedPayload.Add(bodySize); return mfs, nil
AddTotalScrapedPayload(p) ==
  /\ pc[p] = "addTotal"
  /\ totalScrapedPayload' = GaugeAdd(totalScrapedPayload, BodySize(p))
  /\ result' = [result EXCEPT ![p] = MetricFamiliesByName(mfs[p])]
  /\ err' = [err EXCEPT ![p] = NilErr]
  /\ pc' = [pc EXCEPT ![p] = "done"]
  /\ UNCHANGED <<url, acceptHeader, fetchTimeout, mfs, req, resp, body, decoded,
                 doer, targetSize, snapshot, history>>

\* The caller has the values Get returned; the call's frame is gone.  The
\* history variables take note of a successful call.
Return(p) ==
  /\ pc[p] = "done"
  /\ pc' = [pc EXCEPT ![p] = "idle"]
  /\ url' = [url EXCEPT ![p] = ""]
  /\ acceptHeader' = [acceptHeader EXCEPT ![p] = ""]
  /\ fetchTimeout' = [fetchTimeout EXCEPT ![p] = ""]
  /\ mfs' = [mfs EXCEPT ![p] = EmptyMap]
  /\ req' = [req EXCEPT ![p] = NoReq]
  /\ resp' = [resp EXCEPT ![p] = NoResp]
  /\ body' = [body EXCEPT ![p] = NoBody]
  /\ decoded' = [decoded EXCEPT ![p] = <<>>]
  /\ result' = [result EXCEPT ![p] = NilMap]
  /\ err' = [err EXCEPT ![p] = NilErr]
  /\ doer' = [doer EXCEPT ![p] = [calls |-> 0, req |-> NoReq]]
  /\ preTarget' = [preTarget EXCEPT ![p] = EmptyMap]
  /\ preTotal' = [preTotal EXCEPT ![p] = 0]
  /\ IF err[p] = NilErr
       THEN /\ scrapedSince' = scrapedSince + body[p].len
            /\ lastOk' = MapPut(lastOk, url[p], body[p].len)
       ELSE UNCHANGED history
  /\ UNCHANGED metrics

\* ------------------------------------------------------------------ resets

AllIdle == \A p \in Procs : pc[p] = "idle"

\* func ResetTotalScrapedPayload() { totalScrapedPayload.Set(0) }
ResetTotalScrapedPayload ==
  /\ AllIdle
  /\ totalScrapedPayload' = 0
  /\ scrapedSince' = 0
  /\ UNCHANGED <<pc, locals, targetSize, snapshot, lastOk>>

\* func ResetTargetSize() { targetSize.Reset() }: every series is deleted.
ResetTargetSize ==
  /\ AllIdle
  /\ targetSize' = EmptyMap
  /\ lastOk' = EmptyMap
  /\ UNCHANGED <<pc, locals, totalScrapedPayload, snapshot, scrapedSince>>

\* ------------------------------------------------------------------ specifications

\* The process of the sequential specification.
Main == CHOOSE p \in Procs : \A q \in Procs : p <= q

\* One caller: a sequence of Get calls and resets, one after the other.
Next ==
  \/ \E u \in Urls, a \in AcceptHeaders, t \in FetchTimeouts : GetCall(Main, u, a, t)
  \/ NewRequest(Main)
  \/ AddAcceptHeader(Main)
  \/ AddTimeoutHeader(Main)
  \/ \E o \in DoOutcomes : ClientDo(Main, o)
  \/ CheckStatus(Main)
  \/ \E o \in ReadOutcomes : ReadAll(Main, o)
  \/ \E e \in DecodeEvents : Decode(Main, e)
  \/ SetTargetSize(Main)
  \/ AddTotalScrapedPayload(Main)
  \/ Return(Main)
  \/ ResetTotalScrapedPayload
  \/ ResetTargetSize

Spec == Init /\ [][Next]_vars

\* Every process calls Get once, in parallel with the others; the steps of the
\* calls interleave in any order.
NextPar ==
  \E p \in Procs :
    \/ \E u \in ParUrls, a \in ParAcceptHeaders, t \in ParFetchTimeouts :
         GetCall(p, u, a, t)
    \/ NewRequest(p)
    \/ AddAcceptHeader(p)
    \/ AddTimeoutHeader(p)
    \/ \E o \in ParDoOutcomes : ClientDo(p, o)
    \/ CheckStatus(p)
    \/ \E o \in ReadOutcomes : ReadAll(p, o)
    \/ \E e \in ParDecodeEvents : Decode(p, e)
    \/ SetTargetSize(p)
    \/ AddTotalScrapedPayload(p)

SpecPar == Init /\ [][NextPar]_vars

\* ------------------------------------------------------------------ claims

Failed(p) == pc[p] = "done" /\ err[p] # NilErr
Succeeded(p) == pc[p] = "done" /\ err[p] = NilErr
InCall(p) == pc[p] # "idle"

\* C1: when Get returns an error, the size gauge (every target's series) and
\* the cumulative metric have the values they had when the call began.
C1_NoSideEffectsOnFailure ==
  \A p \in Procs :
    Failed(p) => /\ targetSize = preTarget[p]
                 /\ totalScrapedPayload = preTotal[p]

\* C1 witness: a call failed in decoding a non-empty body, after earlier
\* successful calls had set both metrics.
C1_Witness ==
  \E p \in Procs :
    /\ Failed(p)
    /\ err[p].kind = "DecodeError"
    /\ body[p].len > 0
    /\ preTotal[p] > 0
    /\ url[p] \in DOMAIN preTarget[p]
    /\ preTarget[p][url[p]] # body[p].len

\* C2: between calls the cumulative metric is the sum of the body sizes of the
\* successful calls since the last ResetTotalScrapedPayload (0 right after the
\* reset); a successful call of body size N has raised it by exactly N; and
\* during a call it is never below its value at the start of the call.
C2_CumulativeIsSumSinceReset ==
  /\ AllIdle => totalScrapedPayload = scrapedSince
  /\ \A p \in Procs :
       /\ InCall(p) => totalScrapedPayload >= preTotal[p]
       /\ Succeeded(p) => totalScrapedPayload = preTotal[p] + body[p].len

\* C2 witness: a successful call with a non-empty body has returned on top of
\* bytes counted by earlier calls.
C2_Witness ==
  \E p \in Procs :
    /\ Succeeded(p)
    /\ body[p].len > 0
    /\ preTotal[p] > 0
    /\ scrapedSince = preTotal[p]

\* C3: between calls the gauge holds, for every target, the body size of its
\* last successful call since the last ResetTargetSize, and no series for a
\* target without one; a successful call for T sets T's series to its body
\* size and leaves every other series as it was.
C3_GaugeIsLastSuccessPerTarget ==
  /\ AllIdle => targetSize = lastOk
  /\ \A p \in Procs :
       Succeeded(p) =>
         /\ DOMAIN targetSize = (DOMAIN preTarget[p]) \cup {url[p]}
         /\ targetSize[url[p]] = body[p].len
         /\ \A t \in DOMAIN preTarget[p] :
              t # url[p] => targetSize[t] = preTarget[p][t]

\* C3 witness: a successful call replaced its target's earlier value while
\* another target holds a different value.
C3_Witness ==
  \E p \in Procs :
    /\ Succeeded(p)
    /\ url[p] \in DOMAIN preTarget[p]
    /\ preTarget[p][url[p]] # body[p].len
    /\ \E t \in DOMAIN preTarget[p] :
         t # url[p] /\ preTarget[p][t] # body[p].len

\* C4: a call that fails after its body was read (a decode error other than
\* end of input, after any number of decoded families) returns nil and the
\* decode error, not the families decoded so far.
C4_DecodeFailureReturnsNil ==
  \A p \in Procs :
    (Failed(p) /\ body[p].read) =>
      /\ err[p].kind = "DecodeError"
      /\ result[p].isNil
      /\ DOMAIN result[p].m = {}

\* C4 witness: the decoder failed after two families were decoded and inserted.
C4_Witness ==
  \E p \in Procs :
    /\ Failed(p)
    /\ body[p].read
    /\ Len(decoded[p]) = 2
    /\ Cardinality(DOMAIN mfs[p]) = 2

\* C5: a response is rejected, with a nil result and an error naming the code,
\* exactly when its status code is below 200 or above 300; the codes 200..300
\* pass the check and go on to the body read and the decoding.
C5_StatusBoundary ==
  \A p \in Procs :
    /\ pc[p] \in {"readAll", "decode", "setTargetSize", "addTotal"} =>
         resp[p].got /\ resp[p].StatusCode \in 200..300
    /\ (pc[p] = "done" /\ resp[p].got) =>
         IF resp[p].StatusCode < 200 \/ resp[p].StatusCode > 300
           THEN /\ err[p] = [kind |-> "HTTPStatusError", code |-> resp[p].StatusCode]
                /\ result[p].isNil
                /\ ~ body[p].read
           ELSE err[p].kind \in {"nil", "BodyReadError", "DecodeError"}

\* C5 witness: a response with status 300 passed the check and its body was read.
C5_Witness ==
  \E p \in Procs :
    /\ Succeeded(p)
    /\ resp[p].StatusCode = 300

\* The place of the last family named n among the decoded families ds.
LastIndexOf(ds, n) ==
  CHOOSE i \in 1..Len(ds) :
    /\ ds[i].name = n
    /\ \A j \in (i + 1)..Len(ds) : ds[j].name # n

\* C6: on success the keys of the returned map are exactly the names of the
\* families the decoder produced, and each key holds the last family produced
\* under that name.
C6_LastFamilyWins ==
  \A p \in Procs :
    Succeeded(p) =>
      /\ ~ result[p].isNil
      /\ DOMAIN result[p].m = {decoded[p][i].name : i \in 1..Len(decoded[p])}
      /\ \A n \in DOMAIN result[p].m :
           result[p].m[n] = decoded[p][LastIndexOf(decoded[p], n)]

\* C6 witness: three families were decoded, the third under the name of the first.
C6_Witness ==
  \E p \in Procs :
    /\ Succeeded(p)
    /\ Len(decoded[p]) = 3
    /\ decoded[p][1].name = decoded[p][3].name
    /\ decoded[p][2].name # decoded[p][1].name

\* C7: a call that returns an error returns no entries: the non-nil empty map
\* when the request could not be built, the transport failed or the body read
\* failed, and nil when the status was rejected or the decoding failed; a map
\* with entries comes only with a nil error.
C7_EmptyOrNilOnFailure ==
  \A p \in Procs :
    /\ Failed(p) =>
         /\ DOMAIN result[p].m = {}
         /\ result[p].isNil <=> (resp[p].got /\ (body[p].read \/ resp[p].StatusCode \notin 200..300))
         /\ err[p].kind =
              IF ~ resp[p].got
                THEN (IF doer[p].calls = 0 THEN "RequestConstructionError"
                                           ELSE "TransportError")
                ELSE IF resp[p].StatusCode \notin 200..300 THEN "HTTPStatusError"
                ELSE IF body[p].read THEN "DecodeError" ELSE "BodyReadError"
    /\ (pc[p] = "done" /\ DOMAIN result[p].m # {}) => err[p] = NilErr

\* C7 witness: the body read failed and the call returned the empty, non-nil map.
C7_Witness ==
  \E p \in Procs :
    /\ Failed(p)
    /\ err[p].kind = "BodyReadError"
    /\ ~ result[p].isNil

\* C8: during one call Do runs at most once: not before the request is
\* built and sent, once from then on, and never when the request could not be built.
C8_DoAtMostOnce ==
  \A p \in Procs :
    /\ doer[p].calls <= 1
    /\ pc[p] \in {"newRequest", "addAccept", "addTimeout", "do"} => doer[p].calls = 0
    /\ pc[p] \in {"checkStatus", "readAll", "decode", "setTargetSize", "addTotal"} =>
         doer[p].calls = 1
    /\ pc[p] = "done" =>
         doer[p].calls = (IF url[p] \in ValidUrls THEN 1 ELSE 0)

\* C8 witness: the transport failed and the call returned after one Do.
C8_Witness ==
  \E p \in Procs :
    /\ Failed(p)
    /\ err[p].kind = "TransportError"
    /\ doer[p].calls = 1

\* C9: the request the transport is given is a GET for the url that carries
\* Accept = acceptHeader and X-Prometheus-Scrape-Timeout-Seconds = fetchTimeout.
C9_HeadersBeforeDo ==
  \A p \in Procs :
    doer[p].calls >= 1 =>
      /\ doer[p].req.method = "GET"
      /\ doer[p].req.url = url[p]
      /\ HeaderGet(doer[p].req.header, "Accept") = acceptHeader[p]
      /\ HeaderGet(doer[p].req.header, "X-Prometheus-Scrape-Timeout-Seconds")
           = fetchTimeout[p]

\* C9 witness: the transport has run for a call.
C9_Witness ==
  \E p \in Procs :
    /\ pc[p] = "checkStatus"
    /\ doer[p].calls = 1
    /\ acceptHeader[p] = "*/*"
    /\ fetchTimeout[p] = "10"

RECURSIVE SumOk(_)
\* The sum of the body sizes of the successful calls of the processes ps.
SumOk(ps) ==
  IF ps = {} THEN 0
  ELSE LET q == CHOOSE x \in ps : TRUE
       IN (IF Succeeded(q) THEN body[q].len ELSE 0) + SumOk(ps \ {q})

AllDone == \A p \in Procs : pc[p] = "done"

\* C10: once all parallel calls have returned, the cumulative metric has grown
\* by the sum of the body sizes of the successful calls, and the gauge of every
\* target with a successful call holds the body size of one of them.
C10_NoLostUpdate ==
  AllDone =>
    /\ totalScrapedPayload = SumOk(Procs)
    /\ \A t \in Urls :
         (\E p \in Procs : Succeeded(p) /\ url[p] = t) =>
           /\ t \in DOMAIN targetSize
           /\ \E p \in Procs :
                Succeeded(p) /\ url[p] = t /\ targetSize[t] = body[p].len

\* C10 witness: two calls for one target succeeded with different body sizes,
\* the one that set the gauge last having begun before the other added its size.
C10_Witness ==
  /\ AllDone
  /\ \E p, q \in Procs :
       /\ p # q
       /\ Succeeded(p) /\ Succeeded(q)
       /\ url[p] = url[q]
       /\ body[p].len > 0 /\ body[q].len > body[p].len
       /\ preTotal[p] = 0 /\ preTotal[q] = 0
       /\ targetSize[url[p]] = body[p].len

====
